---- MODULE Spec2Model ----
(***************************************************************************)
(* DC Site Scout (src/app.py): the deterministic site ranking function     *)
(* rank_sites and the Streamlit session state that the sidebar handlers    *)
(* replace on every batch load.                                            *)
(*                                                                         *)
(* Number representation.  power_km and flood_pct are Python floats with   *)
(* one decimal and are held in tenths (0.8 km is 8); latency_ms, cost_mw   *)
(* and elev_m are Python ints and are held as they are.  The running score *)
(* of rank_sites is held in hundredths (100 is 10000), which makes every   *)
(* product of the formula exact: x*3 of a value in tenths is 30*x          *)
(* hundredths, x*1.5 is 15*x, (l-5)*0.8 is 80*(l-5), (c-40)*0.3 is         *)
(* 30*(c-40).  On the attribute values used below the exact result equals  *)
(* the IEEE double result of the source for every site (compared           *)
(* exhaustively against the Python function).  lat and lon are held in     *)
(* 1e-4 degrees; they are never used in scoring.                           *)
(***************************************************************************)
EXTENDS Integers, Sequences, FiniteSets, TLC

VARIABLES
    sites,           \* st.session_state.sites
    ranked_results,  \* st.session_state.ranked_results
    show_demo,       \* st.session_state.show_demo
    event,           \* the branch the latest script run took
    local_sites,     \* the handler's local list `sites` (line 272) of the latest upload run
    view,            \* what the main content section of the latest run did
    input,           \* the argument of a direct call of rank_sites
    output,          \* its return value
    raw,             \* per input site, the local `score` just before line 134
    pc               \* "ready" before the direct call, "done" after it

vars == <<sites, ranked_results, show_demo, event, local_sites, view,
          input, output, raw, pc>>

sessionVars == <<sites, ranked_results, show_demo, event, local_sites, view>>
callVars == <<input, output, raw, pc>>

----------------------------------------------------------------------------
(* Bounds *)

MaxSites == 4
MaxFeatures == 2

----------------------------------------------------------------------------
(* Python helpers *)

Min(a, b) == IF a <= b THEN a ELSE b
Max(a, b) == IF a >= b THEN a ELSE b

\* dict.get(k, d)
Get(site, k, d) == IF k \in DOMAIN site THEN site[k] ELSE d

\* round() of a value held in hundredths: to the nearest integer, a tie
\* going to the even neighbour.  \div and % are floor division and its
\* non-negative remainder, so negative values are handled as well.
round(x) ==
    LET q == x \div 100
        r == x % 100
    IN  IF r < 50 THEN q
        ELSE IF r > 50 THEN q + 1
        ELSE IF q % 2 = 0 THEN q ELSE q + 1

\* str() of a float held in tenths, and of an int
FmtFloat(v) ==
    IF v < 0 THEN "-" \o ToString((-v) \div 10) \o "." \o ToString((-v) % 10)
    ELSE ToString(v \div 10) \o "." \o ToString(v % 10)
FmtInt(v) == ToString(v)

----------------------------------------------------------------------------
(* rank_sites, lines 109-163 *)

\* line 118
PowerPenaltyNoDefault(site) == Min(Get(site, "power_km", 0) * 30, 1500)
PowerPenalty(site) == Min(Get(site, "power_km", 50) * 30, 1500)

\* line 121
FloodPenaltyUncapped(site) == Get(site, "flood_pct", 100) * 15
FloodPenalty(site) == Min(Get(site, "flood_pct", 100) * 15, 2500)

\* line 124
LatencyPenaltyClamped(site) ==
    Max(Min((Get(site, "latency_ms", 20) - 5) * 80, 1500), 0)
LatencyPenalty(site) == Min((Get(site, "latency_ms", 20) - 5) * 80, 1500)

\* line 127
CostPenalty(site) == Min((Get(site, "cost_mw", 60) - 40) * 30, 1000)

\* lines 130-131
ElevationBonusInclusive(site) ==
    IF Get(site, "elev_m", 0) >= 200 THEN 500 ELSE 0
ElevationBonus(site) == IF Get(site, "elev_m", 0) > 200 THEN 500 ELSE 0

\* lines 115-131: the local `score` before it is normalised
RawScore(site) ==
    10000 - PowerPenalty(site) - FloodPenalty(site) - LatencyPenalty(site)
          - CostPenalty(site) + ElevationBonus(site)

\* line 134
NormalizeNoUpperClamp(x) == Max(round(x), 0)
Normalize(x) == Max(Min(round(x), 100), 0)

\* lines 137-148
TierOffByOne(score) ==
    IF score > 85 THEN "Tier 1: Ready to Build"
    ELSE IF score >= 70 THEN "Tier 2: Investigate Further"
    ELSE "Tier 3: High Risk"
Tier(score) ==
    IF score >= 85 THEN "Tier 1: Ready to Build"
    ELSE IF score >= 70 THEN "Tier 2: Investigate Further"
    ELSE "Tier 3: High Risk"

RiskLevel(score) ==
    IF score >= 85 THEN "Low Risk"
    ELSE IF score >= 70 THEN "Medium Risk"
    ELSE "High Risk"

Color(score) ==
    IF score >= 85 THEN "green"
    ELSE IF score >= 70 THEN "orange"
    ELSE "red"

\* line 151
Justification(site) ==
    "Power: "
    \o (IF "power_km" \in DOMAIN site THEN FmtFloat(site["power_km"]) ELSE "N/A")
    \o "km | Flood: "
    \o (IF "flood_pct" \in DOMAIN site THEN FmtFloat(site["flood_pct"]) ELSE "N/A")
    \o "% | Latency: "
    \o (IF "latency_ms" \in DOMAIN site THEN FmtInt(site["latency_ms"]) ELSE "N/A")
    \o "ms | Energy: $"
    \o (IF "cost_mw" \in DOMAIN site THEN FmtInt(site["cost_mw"]) ELSE "N/A")
    \o "/MWh"

\* lines 153-160: {**site, "score": ..., ...}; the new keys win
RankOne(site) ==
    LET score == Normalize(RawScore(site))
    IN  [score |-> score,
         tier |-> Tier(score),
         risk_level |-> RiskLevel(score),
         color |-> Color(score),
         justification |-> Justification(site)] @@ site

\* line 163: sorted(ranked, key=score, reverse=True).  Python's sort is
\* stable and reverse=True keeps the original order of equal keys, so each
\* element goes behind every element whose score is at least its own.
RECURSIVE InsertDescUnstable(_, _)
InsertDescUnstable(x, s) ==
    IF s = <<>> THEN <<x>>
    ELSE IF Head(s).score > x.score
         THEN <<Head(s)>> \o InsertDescUnstable(x, Tail(s))
         ELSE <<x>> \o s

RECURSIVE InsertDesc(_, _)
InsertDesc(x, s) ==
    IF s = <<>> THEN <<x>>
    ELSE IF Head(s).score >= x.score
         THEN <<Head(s)>> \o InsertDesc(x, Tail(s))
         ELSE <<x>> \o s

RECURSIVE SortedDesc(_)
SortedDesc(s) ==
    IF s = <<>> THEN <<>>
    ELSE InsertDesc(s[Len(s)], SortedDesc(SubSeq(s, 1, Len(s) - 1)))

\* lines 109-163
rank_sites(ss) == SortedDesc([i \in 1..Len(ss) |-> RankOne(ss[i])])

----------------------------------------------------------------------------
(* Direct calls of rank_sites: the inputs *)

\* one optional attribute: absent, or present with one of the values
Opt(k, vals) == {<<>>} \cup {k :> v : v \in vals}

PowerVals == {-20, 0, 8, 50, 68}
FloodVals == {0, 12, 157, 10000}
LatencyVals == {-1000, 0, 3, 5, 8, 14, 30}
CostVals == {0, 40, 52, 65, 68, 100}
ElevVals == {85, 200, 201, 215}

\* every combination of absent and present attributes on one site
ScoreSites ==
    { [name |-> "S", lat |-> 0, lon |-> 0] @@ p @@ f @@ l @@ c @@ e :
        p \in Opt("power_km", PowerVals),
        f \in Opt("flood_pct", FloodVals),
        l \in Opt("latency_ms", LatencyVals),
        c \in Opt("cost_mw", CostVals),
        e \in Opt("elev_m", ElevVals) }

Site(n, p, f, l, c, e) ==
    [name |-> n, lat |-> 0, lon |-> 0, power_km |-> p, flood_pct |-> f,
     latency_ms |-> l, cost_mw |-> c, elev_m |-> e]

\* named sites for the batches of several sites: A and B differ in latency
\* only (3 and 5) and score 85 and 84, C and E both score 70, D scores 69
RankSites ==
    { Site("A", -20, 157, 3, 52, 201),
      Site("B", -20, 157, 5, 52, 201),
      Site("C", 0, 157, 3, 68, 85),
      Site("D", 0, 157, 5, 65, 85),
      Site("E", 0, 157, 8, 52, 85) }

RECURSIVE SeqsOfLen(_, _)
SeqsOfLen(S, n) ==
    IF n = 0 THEN {<<>>}
    ELSE {Append(s, x) : s \in SeqsOfLen(S, n - 1), x \in S}

\* two sites that differ in one attribute only, both values at or below the
\* point where its penalty term is zero (latency 5, energy cost 40)
LowPairs ==
    { <<s, [s EXCEPT !["latency_ms"] = b]>> :
        s \in {t \in ScoreSites : "latency_ms" \in DOMAIN t /\ t["latency_ms"] < 5},
        b \in {0, 3, 5} }
    \cup { <<s, [s EXCEPT !["cost_mw"] = b]>> :
        s \in {t \in ScoreSites : "cost_mw" \in DOMAIN t /\ t["cost_mw"] < 40},
        b \in {40} }

Inputs ==
    {<<>>} \cup {<<s>> : s \in ScoreSites}
           \cup {pr \in LowPairs : pr[1] # pr[2]}
           \cup UNION {SeqsOfLen(RankSites, n) : n \in 2..MaxSites}

----------------------------------------------------------------------------
(* Demo data, lines 97-104 *)

DemoSite(n, la, lo, e, f, p, l, c) ==
    [name |-> n, lat |-> la, lon |-> lo, elev_m |-> e, flood_pct |-> f,
     power_km |-> p, latency_ms |-> l, cost_mw |-> c]

DEMO_SITES ==
    << DemoSite("Northern Virginia - Ashburn", 390438, -774874, 85, 12, 8, 8, 52),
       DemoSite("Phoenix - Goodyear", 334352, -1123576, 305, 5, 21, 15, 48),
       DemoSite("Atlanta - Douglas County", 337490, -843880, 320, 85, 32, 12, 58),
       DemoSite("Dallas - Fort Worth", 327767, -967970, 135, 123, 45, 18, 62),
       DemoSite("Portland - Hillsboro", 455231, -1229895, 62, 38, 15, 22, 45),
       DemoSite("Chicago - Aurora", 417606, -883201, 215, 157, 68, 14, 68) >>

----------------------------------------------------------------------------
(* Uploaded files *)

\* a point is <<lon, lat>>
Points == { <<-774874, 390438>>, <<-1123576, 334352>> }

\* properties with and without a name
PropertySets == { <<>>, [name |-> "North"] }

\* features the loop of lines 274-290 accepts: a Polygon, whose coordinates
\* are a list of rings of points
GoodFeatures ==
    { [geometry |-> [type |-> "Polygon", coordinates |-> << <<pt>> >>],
       properties |-> pr] : pt \in Points, pr \in PropertySets }

\* features on which it raises: no geometry (KeyError), a Point, whose
\* coordinates are one flat point so that [0][0] subscripts a float
\* (TypeError), and no properties (KeyError)
BadFeatures ==
    { [properties |-> [name |-> "North"]],
      [geometry |-> [type |-> "Point", coordinates |-> <<-774874, 390438>>],
       properties |-> [name |-> "North"]],
      [geometry |-> [type |-> "Polygon",
                     coordinates |-> << << <<-774874, 390438>> >> >>]] }

Features == GoodFeatures \cup BadFeatures

\* what the uploader can hold: bytes json.load rejects, or a JSON object
\* with or without a "features" member
Files ==
    { [json |-> FALSE] }
    \cup { [json |-> TRUE, geo |-> <<>>] }
    \cup { [json |-> TRUE, geo |-> [features |-> fs]] :
             fs \in UNION {SeqsOfLen(Features, n) : n \in 0..MaxFeatures} }

----------------------------------------------------------------------------
(* Upload handler, lines 268-298 *)

\* lines 275-290 on one feature: the site, or the exception raised
ParseFeature(f) ==
    IF "geometry" \notin DOMAIN f
    THEN [ok |-> FALSE, exc |-> "KeyError"]
    ELSE IF "coordinates" \notin DOMAIN f["geometry"]
    THEN [ok |-> FALSE, exc |-> "KeyError"]
    ELSE IF f["geometry"]["type"] = "Point"
    THEN [ok |-> FALSE, exc |-> "TypeError"]
    ELSE IF "properties" \notin DOMAIN f
    THEN [ok |-> FALSE, exc |-> "KeyError"]
    ELSE LET coords == f["geometry"]["coordinates"][1][1]
         IN  [ok |-> TRUE,
              site |-> [name |-> Get(f["properties"], "name", "Site"),
                        lat |-> coords[2],
                        lon |-> coords[1],
                        elev_m |-> 150,
                        flood_pct |-> 21,
                        power_km |-> 18,
                        latency_ms |-> 12,
                        cost_mw |-> 65]]

\* lines 272-290: the loop over the features, appending to the local list
\* acc until a feature raises
RECURSIVE ParseFeatures(_, _)
ParseFeatures(fs, acc) ==
    IF fs = <<>> THEN [ok |-> TRUE, sites |-> acc]
    ELSE LET r == ParseFeature(Head(fs))
         IN  IF r.ok THEN ParseFeatures(Tail(fs), Append(acc, r.site))
             ELSE [ok |-> FALSE, sites |-> acc, exc |-> r.exc]

\* lines 271-290
ProcessFile(file) ==
    IF ~file.json
    THEN [ok |-> FALSE, sites |-> <<>>, exc |-> "JSONDecodeError"]
    ELSE ParseFeatures(Get(file.geo, "features", <<>>), <<>>)

----------------------------------------------------------------------------
(* Main content, lines 316-351 *)

\* the info panel, the map, or the exception of line 350
MainContent(ss, show) ==
    IF ~show THEN "info"
    ELSE IF Len(ss) = 0 THEN "ZeroDivisionError"
    ELSE "map"

----------------------------------------------------------------------------
(* Session state, lines 168-173 *)

SessionInit ==
    /\ sites = <<>>
    /\ ranked_results = <<>>
    /\ show_demo = FALSE
    /\ event = "start"
    /\ local_sites = <<>>
    /\ view = "none"

----------------------------------------------------------------------------
(* A direct call of rank_sites on one input *)

CallInit ==
    /\ input \in Inputs
    /\ output = <<>>
    /\ raw = <<>>
    /\ pc = "ready"

Rank ==
    /\ pc = "ready"
    /\ output' = rank_sites(input)
    /\ raw' = [i \in 1..Len(input) |-> RawScore(input[i])]
    /\ pc' = "done"
    /\ UNCHANGED <<input, sessionVars>>

RankInit == SessionInit /\ CallInit
RankNext == Rank
RankSpec == RankInit /\ [][RankNext]_vars

----------------------------------------------------------------------------
(* Script runs *)

\* lines 257-262: the button was clicked; st.rerun() ends the run
LoadDemoMerging ==
    /\ sites' = sites \o DEMO_SITES
    /\ ranked_results' = rank_sites(DEMO_SITES)
    /\ show_demo' = TRUE
    /\ event' = "demo"
    /\ view' = "rerun"
    /\ UNCHANGED <<local_sites, callVars>>

LoadDemo ==
    /\ sites' = DEMO_SITES
    /\ ranked_results' = rank_sites(DEMO_SITES)
    /\ show_demo' = TRUE
    /\ event' = "demo"
    /\ view' = "rerun"
    /\ UNCHANGED <<local_sites, callVars>>

\* lines 268-298: the uploader holds a file and the button was not clicked.
\* Without an exception the batch is stored and st.rerun() ends the run;
\* with one, st.error reports it and the run goes on to the main content.
UploadStoringPartial(file) ==
    LET r == ProcessFile(file)
    IN  /\ local_sites' = r.sites
        /\ sites' = r.sites
        /\ ranked_results' = rank_sites(r.sites)
        /\ IF r.ok
           THEN /\ show_demo' = TRUE
                /\ event' = "upload_ok"
                /\ view' = "rerun"
           ELSE /\ event' = "upload_error"
                /\ view' = MainContent(sites', show_demo)
                /\ UNCHANGED show_demo
        /\ UNCHANGED callVars

Upload(file) ==
    LET r == ProcessFile(file)
    IN  /\ local_sites' = r.sites
        /\ IF r.ok
           THEN /\ sites' = r.sites
                /\ ranked_results' = rank_sites(r.sites)
                /\ show_demo' = TRUE
                /\ event' = "upload_ok"
                /\ view' = "rerun"
           ELSE /\ event' = "upload_error"
                /\ view' = MainContent(sites, show_demo)
                /\ UNCHANGED <<sites, ranked_results, show_demo>>
        /\ UNCHANGED callVars

\* a run with no click and no file: only the main content acts
Render ==
    /\ event' = "render"
    /\ view' = MainContent(sites, show_demo)
    /\ UNCHANGED <<sites, ranked_results, show_demo, local_sites, callVars>>

Init ==
    /\ SessionInit
    /\ input = <<>>
    /\ output = <<>>
    /\ raw = <<>>
    /\ pc = "idle"

Next ==
    \/ LoadDemo
    \/ \E file \in Files : Upload(file)
    \/ Render

Spec == Init /\ [][Next]_vars

----------------------------------------------------------------------------
(* Properties of rank_sites, checked under RankSpec *)

T1 == "Tier 1: Ready to Build"
T2 == "Tier 2: Investigate Further"
T3 == "Tier 3: High Risk"

\* a ranked record without the five keys rank_sites adds: the site it is of
Strip(o) ==
    [k \in DOMAIN o \ {"score", "tier", "risk_level", "color", "justification"}
        |-> o[k]]

Perms(n) == {p \in [1..n -> 1..n] : \A i, j \in 1..n : p[i] = p[j] => i = j}

Abs(x) == IF x < 0 THEN -x ELSE x

HasAll(s) ==
    {"power_km", "flood_pct", "latency_ms", "cost_mw", "elev_m"} \subseteq DOMAIN s

\* C1: every score rank_sites returns is an integer from 0 to 100, extreme
\* attribute values (flood 1000, latency far below 5) included.
C1_ScoreInRange ==
    pc = "done" => \A k \in 1..Len(output) : output[k].score \in 0..100

\* flood 1000 and latency -1000 on one site: 868 before the clamp, 100 after
C1_Witness ==
    /\ pc = "done"
    /\ Len(input) = 1
    /\ HasAll(input[1])
    /\ input[1]["flood_pct"] = 10000
    /\ input[1]["latency_ms"] = -1000
    /\ raw[1] > 10000
    /\ output[1].score = 100

\* C2: the output is the stable descending-score ordering of the per-site
\* results: as long as the input, one result per input site, no score below
\* a later one, and equal scores in input order.
C2_StableDescending ==
    pc = "done" =>
        /\ Len(output) = Len(input)
        /\ \E p \in Perms(Len(input)) :
              /\ \A k \in 1..Len(output) : Strip(output[k]) = input[p[k]]
              /\ \A k, l \in 1..Len(output) :
                    k < l => \/ output[k].score > output[l].score
                             \/ /\ output[k].score = output[l].score
                                /\ p[k] < p[l]

\* C, D, E, A comes back as A, C, E, D: C and E tie at 70 and keep their order
C2_Witness ==
    /\ pc = "done"
    /\ Len(input) = 4
    /\ [i \in 1..4 |-> input[i].name] = <<"C", "D", "E", "A">>
    /\ [i \in 1..4 |-> output[i].name] = <<"A", "C", "E", "D">>
    /\ output[2].score = output[3].score

\* C3: tier and risk level follow from the score alone: 85 and above is
\* Tier 1 / Low Risk, 70 to 84 is Tier 2 / Medium Risk, below 70 is Tier 3 /
\* High Risk.
C3_TierBoundaries ==
    pc = "done" =>
        \A k \in 1..Len(output) :
            LET o == output[k]
            IN  /\ o.score >= 85 => o.tier = T1 /\ o.risk_level = "Low Risk"
                /\ (o.score >= 70 /\ o.score < 85) =>
                       o.tier = T2 /\ o.risk_level = "Medium Risk"
                /\ o.score < 70 => o.tier = T3 /\ o.risk_level = "High Risk"
                /\ o.tier = T1 <=> o.risk_level = "Low Risk"
                /\ o.tier = T2 <=> o.risk_level = "Medium Risk"
                /\ o.tier = T3 <=> o.risk_level = "High Risk"

\* one batch with the four boundary scores 85, 84, 70 and 69
C3_Witness ==
    /\ pc = "done"
    /\ Len(output) = 4
    /\ [i \in 1..4 |-> output[i].score] = <<85, 84, 70, 69>>
    /\ [i \in 1..4 |-> output[i].tier] = <<T1, T2, T2, T3>>

\* C4: the score is the reference value: 100 less the four capped penalties
\* plus 5 above 200 m (strictly), rounded to a nearest integer and clamped to
\* 0..100; scenario A scores 90 / Tier 1 and scenario B 51 / Tier 3.
C4_ReferenceScore ==
    pc = "done" =>
        \A k \in 1..Len(output) :
            LET o == output[k]
                x == 10000
                     - (IF o["power_km"] * 30 < 1500 THEN o["power_km"] * 30 ELSE 1500)
                     - (IF o["flood_pct"] * 15 < 2500 THEN o["flood_pct"] * 15 ELSE 2500)
                     - (IF (o["latency_ms"] - 5) * 80 < 1500
                        THEN (o["latency_ms"] - 5) * 80 ELSE 1500)
                     - (IF (o["cost_mw"] - 40) * 30 < 1000
                        THEN (o["cost_mw"] - 40) * 30 ELSE 1000)
                     + (IF o["elev_m"] >= 201 THEN 500 ELSE 0)
                isA == /\ o["power_km"] = 8 /\ o["flood_pct"] = 12
                       /\ o["latency_ms"] = 8 /\ o["cost_mw"] = 52
                       /\ o["elev_m"] = 85
                isB == /\ o["power_km"] = 68 /\ o["flood_pct"] = 157
                       /\ o["latency_ms"] = 14 /\ o["cost_mw"] = 68
                       /\ o["elev_m"] = 215
            IN  HasAll(o) =>
                  /\ \E r \in (x \div 100)..(x \div 100 + 1) :
                        /\ 2 * Abs(100 * r - x) <= 100
                        /\ o.score = (IF r > 100 THEN 100 ELSE IF r < 0 THEN 0 ELSE r)
                  /\ isA => o.score = 90 /\ o.tier = T1
                  /\ isB => o.score = 51 /\ o.tier = T3

\* scenario B has been ranked: 50.85 before rounding, 51 after
C4_Witness ==
    /\ pc = "done"
    /\ Len(input) = 1
    /\ input[1] = Site("S", 68, 157, 14, 68, 215)
    /\ raw[1] = 5085
    /\ output[1].score = 51

\* C5: a site lacking optional attributes is ranked as the same site with
\* the defaults filled in (power 5, flood 10, latency 20, cost 60,
\* elevation 0); a site of name, lat and lon only scores 52 / Tier 3 and its
\* justification shows N/A four times.
C5_MissingUseDefaults ==
    pc = "done" =>
        /\ Len(output) = Len(input)
        /\ \A k \in 1..Len(output) :
              LET o == output[k]
                  s == Strip(o)
                  filled == s @@ [power_km |-> 50, flood_pct |-> 100,
                                  latency_ms |-> 20, cost_mw |-> 60,
                                  elev_m |-> 0]
                  f == rank_sites(<<filled>>)[1]
              IN  /\ o.score = f.score
                  /\ o.tier = f.tier
                  /\ DOMAIN s = {"name", "lat", "lon"} =>
                        /\ o.score = 52
                        /\ o.tier = T3
                        /\ o.justification =
                             "Power: N/Akm | Flood: N/A% | Latency: N/Ams | Energy: $N/A/MWh"

\* the site of name, lat and lon only has been ranked
C5_Witness ==
    /\ pc = "done"
    /\ input = << [name |-> "S", lat |-> 0, lon |-> 0] >>
    /\ Len(output) = 1
    /\ output[1].score = 52
    /\ DOMAIN output[1] =
          {"name", "lat", "lon", "score", "tier", "risk_level", "color",
           "justification"}

\* s and t carry the same attributes with the same values, k apart
DiffersOnlyIn(s, t, k) ==
    /\ DOMAIN s = DOMAIN t
    /\ k \in DOMAIN s
    /\ \A x \in DOMAIN s \ {k, "name"} : s[x] = t[x]

C10_ScoreAtLeast35 ==
    pc = "done" => \A k \in 1..Len(output) : output[k].score >= 35

\* every cap binding at once: exactly 35
C10_Witness ==
    /\ pc = "done"
    /\ Len(input) = 1
    /\ input[1] = Site("S", 68, 10000, 30, 100, 85)
    /\ raw[1] = 3500
    /\ output[1].score = 35

----------------------------------------------------------------------------
(* Properties of the session state, checked under Spec *)

\* C7: the session holds exactly the latest batch: after a demo load sites
\* is DEMO_SITES, after a successful upload it is the uploaded batch, and
\* ranked_results is always the ranking of sites (same length, same names).
C7_LatestBatchOnly ==
    /\ event = "demo" => sites = DEMO_SITES
    /\ event = "upload_ok" => sites = local_sites
    /\ Len(ranked_results) = Len(sites)
    /\ ranked_results = rank_sites(sites)
    /\ \E p \in Perms(Len(sites)) :
          \A k \in 1..Len(sites) : Strip(ranked_results[k]) = sites[p[k]]

\* a demo load after an upload: only the six demo sites are left, Dallas
\* before Chicago at 51 each
C7_Witness ==
    /\ event = "demo"
    /\ local_sites # <<>>
    /\ show_demo
    /\ sites = DEMO_SITES
    /\ [i \in 1..6 |-> ranked_results[i].score] = <<90, 88, 75, 72, 51, 51>>
    /\ ranked_results[5].name = "Dallas - Fort Worth"
    /\ ranked_results[1].justification =
          "Power: 0.8km | Flood: 1.2% | Latency: 8ms | Energy: $52/MWh"

\* C8: a run whose upload raises leaves sites, ranked_results and show_demo
\* as they were; the partly built list is not stored and not ranked.
C8_FailedUploadKeepsState ==
    [][event' = "upload_error" =>
          UNCHANGED <<sites, ranked_results, show_demo>>]_vars

\* after a demo load, an upload that raised on its second feature
C8_Witness ==
    /\ event = "upload_error"
    /\ Len(local_sites) = 1
    /\ show_demo
    /\ sites = DEMO_SITES
    /\ Len(ranked_results) = 6
    /\ view = "map"

\* C9: whenever show_demo is true sites is non-empty, so the map centre of
\* line 350 never divides by zero.
C9_ShowDemoHasSites ==
    /\ show_demo => Len(sites) > 0
    /\ view # "ZeroDivisionError"

====
